---- MODULE Spec2Model ----
(***************************************************************************)
(* Model of source/ContentScript/index.ts: the content script that         *)
(* replaces whole-word mentions of "balaklava" by "baklava" in the text    *)
(* nodes of a live document and keeps doing so through a MutationObserver. *)
(*                                                                         *)
(* Strings are sequences of one-character strings, so that the regular     *)
(* expression, the case conversions and the replacement are computed       *)
(* character by character as the JavaScript engine computes them.          *)
(***************************************************************************)
EXTENDS Integers, Sequences, FiniteSets, TLC

VARIABLES
    original,    \* replaceInTextNode: the string read from node.nodeValue
    once,        \* the result of original.replace(WORD_REGEX, ...)
    twice,       \* the result of running the same replace on `once`
    stage,       \* "input" -> "once" -> "twice": how often the replace has run
    readyState,  \* document.readyState
    script,      \* "pending" until the module's top level has run, then "ran"
    listener,    \* whether onReady is registered for DOMContentLoaded
    observers,   \* how many times init() registered a MutationObserver
    children,    \* the document tree: each element's child nodes, in order
    editable,    \* the elements that carry contenteditable="true"
    nodeValue,   \* each text node's payload
    records,     \* the observer's queue of undelivered MutationRecords
    transient,   \* removed nodes still observed until the next delivery
    engine       \* what the engine did in the last step (history variable)

strVars == <<original, once, twice, stage>>

domVars == <<readyState, script, listener, observers, children, editable,
             nodeValue, records, transient, engine>>

vars == <<original, once, twice, stage, readyState, script, listener, observers,
          children, editable, nodeValue, records, transient, engine>>

-----------------------------------------------------------------------------
(* Characters.                                                             *)

LowerLetters ==
    << "a","b","c","d","e","f","g","h","i","j","k","l","m",
       "n","o","p","q","r","s","t","u","v","w","x","y","z" >>

UpperLetters ==
    << "A","B","C","D","E","F","G","H","I","J","K","L","M",
       "N","O","P","Q","R","S","T","U","V","W","X","Y","Z" >>

Digits == {"0","1","2","3","4","5","6","7","8","9"}

Range(f) == { f[i] : i \in DOMAIN f }

\* The upper-case letter of each lower-case letter, and the converse.
UpperOf == [c \in Range(LowerLetters) |->
               UpperLetters[CHOOSE i \in DOMAIN LowerLetters : LowerLetters[i] = c]]

LowerOf == [c \in Range(UpperLetters) |->
               LowerLetters[CHOOSE i \in DOMAIN UpperLetters : UpperLetters[i] = c]]

\* String.prototype.toUpperCase on one ASCII character.
UpperChar(c) == IF c \in DOMAIN UpperOf THEN UpperOf[c] ELSE c

\* String.prototype.toLowerCase on one ASCII character.
LowerChar(c) == IF c \in DOMAIN LowerOf THEN LowerOf[c] ELSE c

toUpperCase(s) == [i \in 1..Len(s) |-> UpperChar(s[i])]

toLowerCase(s) == [i \in 1..Len(s) |-> LowerChar(s[i])]

\* s.slice(from) with a 0-based index, as in template.slice(1).
slice(s, from) == SubSeq(s, from + 1, Len(s))

\* s.charAt(0): the empty string when s is empty.
charAt0(s) == IF Len(s) = 0 THEN << >> ELSE << s[1] >>

-----------------------------------------------------------------------------
(* const WORD_REGEX = /\b(balaklava)(s)?\b/gi;  REPLACEMENT_BASE.          *)

WORD_BASE == << "b","a","l","a","k","l","a","v","a" >>

REPLACEMENT_BASE == << "b","a","k","l","a","v","a" >>

\* \w of a regular expression without the u flag: [A-Za-z0-9_].
WordChars == Range(LowerLetters) \cup Range(UpperLetters) \cup Digits \cup {"_"}

IsWordChar(c) == c \in WordChars

\* Whether position i (1-based) of s holds a word character; the positions
\* before the first and after the last character hold none.
IsWordAt(s, i) == i >= 1 /\ i <= Len(s) /\ IsWordChar(s[i])

\* \b between the characters i-1 and i.
WordBoundary(s, i) == IsWordAt(s, i - 1) # IsWordAt(s, i)

\* (balaklava) under the i flag, starting at position p: the characters are
\* compared after canonicalisation (toUpperCase).
BaseAt(s, p) ==
    /\ p >= 1
    /\ p + Len(WORD_BASE) - 1 <= Len(s)
    /\ \A k \in 1..Len(WORD_BASE) : UpperChar(s[p + k - 1]) = UpperChar(WORD_BASE[k])

\* A regular expression that lost its leading \b.
MatchLenNoLeadingBoundary(s, p) ==
    IF ~ BaseAt(s, p) THEN 0
    ELSE LET e == p + Len(WORD_BASE) IN
         IF e <= Len(s) /\ UpperChar(s[e]) = "S" /\ WordBoundary(s, e + 1)
         THEN Len(WORD_BASE) + 1
         ELSE IF WordBoundary(s, e) THEN Len(WORD_BASE) ELSE 0

\* A regular expression that lost its trailing \b.
MatchLenNoTrailingBoundary(s, p) ==
    IF ~ (WordBoundary(s, p) /\ BaseAt(s, p)) THEN 0
    ELSE LET e == p + Len(WORD_BASE) IN
         IF e <= Len(s) /\ UpperChar(s[e]) = "S"
         THEN Len(WORD_BASE) + 1
         ELSE Len(WORD_BASE)

\* The length of the match of WORD_REGEX that starts at p, 0 when there is
\* none. (s)? is greedy: the suffix is taken when the boundary after it
\* holds, and given back otherwise.
MatchLen(s, p) ==
    IF ~ (WordBoundary(s, p) /\ BaseAt(s, p)) THEN 0
    ELSE LET e == p + Len(WORD_BASE) IN
         IF e <= Len(s) /\ UpperChar(s[e]) = "S" /\ WordBoundary(s, e + 1)
         THEN Len(WORD_BASE) + 1
         ELSE IF WordBoundary(s, e) THEN Len(WORD_BASE) ELSE 0

-----------------------------------------------------------------------------
(* applyCasing(template, target)                                           *)

\* A casing that forgets the Capitalized rule.
applyCasingNoCapital(template, target) ==
    IF toUpperCase(template) = template THEN toUpperCase(target)
    ELSE IF toLowerCase(template) = template THEN toLowerCase(target)
    ELSE target

applyCasing(template, target) ==
    IF toUpperCase(template) = template THEN toUpperCase(target)
    ELSE IF toLowerCase(template) = template THEN toLowerCase(target)
    ELSE LET first == charAt0(template)
             rest  == slice(template, 1)
         IN  IF toUpperCase(first) = first /\ toLowerCase(rest) = rest
             THEN toUpperCase(charAt0(target)) \o toLowerCase(slice(target, 1))
             ELSE target

\* A replacer that never appends the suffix.
replacerNoPlural(match, plural) == applyCasing(match, REPLACEMENT_BASE)

\* The replacer callback: (match, base, plural) => ...; plural is the text
\* captured by (s)?, empty when the group did not take part in the match.
replacer(match, plural) ==
    LET replacementFull ==
            REPLACEMENT_BASE \o (IF Len(plural) > 0 THEN << "s" >> ELSE << >>)
    IN  applyCasing(match, replacementFull)

\* original.replace(WORD_REGEX, replacer) from position p on: with the g
\* flag every match is replaced, and the search resumes after each match.
RECURSIVE replaceFrom(_, _)
replaceFrom(s, p) ==
    IF p > Len(s) THEN << >>
    ELSE LET n == MatchLen(s, p) IN
         IF n = 0 THEN << s[p] >> \o replaceFrom(s, p + 1)
         ELSE replacer(SubSeq(s, p, p + n - 1),
                       SubSeq(s, p + Len(WORD_BASE), p + n - 1))
              \o replaceFrom(s, p + n)

\* A replace without the g flag: only the first match is replaced.
RECURSIVE replaceFirst(_, _)
replaceFirst(s, p) ==
    IF p > Len(s) THEN << >>
    ELSE LET n == MatchLen(s, p) IN
         IF n = 0 THEN << s[p] >> \o replaceFirst(s, p + 1)
         ELSE replacer(SubSeq(s, p, p + n - 1),
                       SubSeq(s, p + Len(WORD_BASE), p + n - 1))
              \o SubSeq(s, p + n, Len(s))

replaceFirstOnly(s) == replaceFirst(s, 1)

\* const replaced = original.replace(WORD_REGEX, ...)
replaced(s) == replaceFrom(s, 1)

-----------------------------------------------------------------------------
(* The document. html is document.documentElement and body is              *)
(* document.body once it is a child of html; pre is an element of an       *)
(* excluded tag, div an ordinary element whose contenteditable attribute   *)
(* the page may set; t1 and t2 are text nodes.                             *)

Elements == {"html", "body", "pre", "div"}

Texts == {"t1", "t2"}

Nodes == Elements \cup Texts

Null == "null"

tagName == [e \in Elements |->
               CASE e = "html" -> "HTML"
                 [] e = "body" -> "BODY"
                 [] e = "pre"  -> "PRE"
                 [] e = "div"  -> "DIV"]

EXCLUDED_TAGS == {"SCRIPT", "STYLE", "NOSCRIPT", "TEXTAREA", "INPUT", "CODE", "PRE"}

documentElement == "html"

\* node.parentNode in the tree ch, Null for a detached node and for html.
parentIn(ch, n) ==
    IF \E e \in Elements : n \in Range(ch[e])
    THEN CHOOSE e \in Elements : n \in Range(ch[e])
    ELSE Null

\* node.parentElement: every parent of the model is an element.
parentElement(n) == parentIn(children, n)

\* document.body
documentBody == IF "body" \in Range(children[documentElement]) THEN "body" ELSE Null

\* n and its ancestors in the tree ch.
RECURSIVE InclusiveAncestors(_, _)
InclusiveAncestors(ch, n) ==
    IF n = Null THEN {} ELSE {n} \cup InclusiveAncestors(ch, parentIn(ch, n))

\* HTMLElement.isContentEditable: the element or one of its ancestors
\* carries contenteditable="true".
isContentEditable(el) == InclusiveAncestors(children, el) \cap editable # {}

\* An exclusion check that looks at the given element only.
isExcludedParentOnly(el) ==
    IF el = Null THEN FALSE
    ELSE tagName[el] \in EXCLUDED_TAGS \/ el \in editable

\* An exclusion check that answers true for no element at all.
isExcludedNullIsExempt(el) ==
    IF el = Null THEN TRUE
    ELSE \E a \in InclusiveAncestors(children, el) :
             tagName[a] \in EXCLUDED_TAGS \/ a \in editable

RECURSIVE isExcludedElement(_)
isExcludedElement(el) ==
    IF el = Null THEN FALSE
    ELSE IF tagName[el] \in EXCLUDED_TAGS THEN TRUE
    ELSE IF isContentEditable(el) THEN TRUE
    ELSE isExcludedElement(parentElement(el))

\* The text nodes below the nodes of seq, in document order: what a
\* TreeWalker of NodeFilter.SHOW_TEXT meets. Elements are not shown, so the
\* filter is not asked about them and the walk descends into every one.
RECURSIVE TextNodesOf(_)
TextNodesOf(seq) ==
    IF seq = << >> THEN << >>
    ELSE LET n == Head(seq)
         IN  (IF n \in Texts THEN << n >> ELSE TextNodesOf(children[n]))
             \o TextNodesOf(Tail(seq))

-----------------------------------------------------------------------------
(* The MutationObserver registered by observer.observe(documentElement,    *)
(* {childList, subtree, characterData}).                                   *)

CharacterData(t) ==
    [type |-> "characterData", target |-> t, addedNodes |-> << >>, removedNodes |-> << >>]

ChildList(p, added, removed) ==
    [type |-> "childList", target |-> p, addedNodes |-> added, removedNodes |-> removed]

\* Whether a mutation of target n is recorded: an observer is registered and
\* n is documentElement, below it, or below a node removed since the last
\* delivery (tr: the nodes with a transient registered observer).
Observed(ch, tr, n) ==
    /\ observers > 0
    /\ \E a \in InclusiveAncestors(ch, n) : a = documentElement \/ a \in tr

\* The queue q after a mutation of target n described by record r.
Queue(q, ch, tr, n, r) == IF Observed(ch, tr, n) THEN Append(q, r) ELSE q

-----------------------------------------------------------------------------
(* The engine. A run of the engine threads a record through its calls:     *)
(* nv the payloads, q the record queue, and the history of the run:        *)
(* examined (the nodes acceptNode was asked about), processed (the nodes   *)
(* replaceInTextNode was called on) and written (the nodes it wrote).      *)
(* The history variable engine keeps the history of the last step: act is  *)
(* "host" after a step of the page, "init" after an init() called from the *)
(* top level, "onReady" after an init() called from onReady, "deliver"     *)
(* after a run of the observer's callback; run counts the deliveries since *)
(* the last step of the page, and batch is the records the callback was    *)
(* called with.                                                            *)

Run(act, q) ==
    [act |-> act, nv |-> nodeValue, q |-> q,
     examined |-> << >>, processed |-> << >>, written |-> << >>]

\* A replaceInTextNode that assigns nodeValue whether or not it changed.
replaceInTextNodeAlwaysWrites(st, node, tr) ==
    LET parent == parentElement(node)
        called == [st EXCEPT !.processed = Append(@, node)]
    IN  IF isExcludedElement(parent) THEN called
        ELSE LET original_ == st.nv[node] IN
             IF original_ = << >> THEN called
             ELSE [called EXCEPT !.nv[node] = replaced(original_),
                                 !.q = Queue(@, children, tr, node, CharacterData(node)),
                                 !.written = Append(@, node)]

\* A replaceInTextNode that trusts its caller about the exemption of node.
replaceInTextNodeNoExemptCheck(st, node, tr) ==
    LET called == [st EXCEPT !.processed = Append(@, node)]
        original_ == st.nv[node]
    IN  IF original_ = << >> THEN called
        ELSE LET replaced_ == replaced(original_) IN
             IF replaced_ # original_
             THEN [called EXCEPT !.nv[node] = replaced_,
                                 !.q = Queue(@, children, tr, node, CharacterData(node)),
                                 !.written = Append(@, node)]
             ELSE called

\* replaceInTextNode(node); tr: the transient observers at the time.
replaceInTextNode(st, node, tr) ==
    LET parent == parentElement(node)
        called == [st EXCEPT !.processed = Append(@, node)]
    IN  IF isExcludedElement(parent) THEN called
        ELSE LET original_ == st.nv[node] IN
             IF original_ = << >> THEN called
             ELSE LET replaced_ == replaced(original_) IN
                  IF replaced_ # original_
                  THEN [called EXCEPT !.nv[node] = replaced_,
                                      !.q = Queue(@, children, tr, node, CharacterData(node)),
                                      !.written = Append(@, node)]
                  ELSE called

\* The loop over walker.nextNode(): acceptNode is asked about each text node
\* met, and replaceInTextNode is called on those it accepts.
RECURSIVE walk(_, _, _)
walk(st, seq, tr) ==
    IF seq = << >> THEN st
    ELSE LET n == Head(seq)
             asked == [st EXCEPT !.examined = Append(@, n)]
         IN  walk(IF isExcludedElement(parentElement(n))
                  THEN asked
                  ELSE replaceInTextNode(asked, n, tr),
                  Tail(seq), tr)

\* A processSubtree that handles text roots only.
processSubtreeTextOnly(st, root, tr) ==
    IF root \in Texts THEN replaceInTextNode(st, root, tr) ELSE st

processSubtree(st, root, tr) ==
    IF root \in Texts THEN replaceInTextNode(st, root, tr)
    ELSE walk(st, TextNodesOf(children[root]), tr)

\* A loop over m.addedNodes that stops after the first added node.
processAddedFirstOnly(st, added, tr) ==
    IF added = << >> THEN st ELSE processSubtree(st, Head(added), tr)

\* for (const added of Array.from(m.addedNodes)) processSubtree(added)
RECURSIVE processAdded(_, _, _)
processAdded(st, added, tr) ==
    IF added = << >> THEN st
    ELSE processAdded(processSubtree(st, Head(added), tr), Tail(added), tr)

\* A callback that handles childList records only.
RECURSIVE callbackNoCharacterData(_, _, _)
callbackNoCharacterData(st, mutations, tr) ==
    IF mutations = << >> THEN st
    ELSE callbackNoCharacterData(processAdded(st, Head(mutations).addedNodes, tr),
                                 Tail(mutations), tr)

\* A callback that scans the removed nodes as it scans the added ones.
RECURSIVE callbackAlsoRemoved(_, _, _)
callbackAlsoRemoved(st, mutations, tr) ==
    IF mutations = << >> THEN st
    ELSE LET m == Head(mutations)
             afterTarget ==
                 IF m.type = "characterData" /\ m.target \in Texts
                 THEN replaceInTextNode(st, m.target, tr)
                 ELSE st
         IN  callbackAlsoRemoved(
                 processAdded(processAdded(afterTarget, m.addedNodes, tr),
                              m.removedNodes, tr),
                 Tail(mutations), tr)

\* The MutationObserver callback: for (const m of mutations) { ... }
RECURSIVE callback(_, _, _)
callback(st, mutations, tr) ==
    IF mutations = << >> THEN st
    ELSE LET m == Head(mutations)
             afterTarget ==
                 IF m.type = "characterData" /\ m.target \in Texts
                 THEN replaceInTextNode(st, m.target, tr)
                 ELSE st
         IN  callback(processAdded(afterTarget, m.addedNodes, tr), Tail(mutations), tr)

History(st, run, batch) ==
    [act |-> st.act, run |-> run, batch |-> batch, examined |-> st.examined,
     processed |-> st.processed, written |-> st.written]

Idle == [act |-> "host", run |-> 0, batch |-> << >>,
         examined |-> << >>, processed |-> << >>, written |-> << >>]

\* An init() that scans document.body without testing it: with no body the
\* scan throws and observer.observe(...) is never reached.
initBodyRequired(from) ==
    LET st == IF documentBody # Null
              THEN processSubtree(Run(from, records), documentBody, transient)
              ELSE Run(from, records)
    IN  /\ nodeValue' = st.nv
        /\ records' = st.q
        /\ engine' = History(st, 0, << >>)
        /\ observers' = IF documentBody # Null THEN observers + 1 ELSE observers
        /\ UNCHANGED <<children, editable, transient>>

\* An init() that only registers the observer.
initNoScan(from) ==
    /\ engine' = History(Run(from, records), 0, << >>)
    /\ observers' = observers + 1
    /\ UNCHANGED <<nodeValue, records, children, editable, transient>>

\* An init() that calls observer.observe(...) before the scan: the writes
\* of the scan are recorded.
initObserveFirst(from) ==
    LET st == IF documentBody # Null
              THEN processSubtree(Run(from, records), documentBody, transient)
              ELSE Run(from, records)
    IN  /\ nodeValue' = st.nv
        /\ records' = records \o [i \in DOMAIN st.written |-> CharacterData(st.written[i])]
        /\ engine' = History(st, 0, << >>)
        /\ observers' = observers + 1
        /\ UNCHANGED <<children, editable, transient>>

\* init(): the scan of document.body when there is one, then
\* observer.observe(...). No observer is registered during the scan, so its
\* writes queue no record.
init(from) ==
    LET st == IF documentBody # Null
              THEN processSubtree(Run(from, records), documentBody, transient)
              ELSE Run(from, records)
    IN  /\ nodeValue' = st.nv
        /\ records' = st.q
        /\ engine' = History(st, 0, << >>)
        /\ observers' = observers + 1
        /\ UNCHANGED <<children, editable, transient>>

\* A top level that registers the listener and calls init() as well.
InstallAlwaysInits ==
    /\ script = "pending"
    /\ script' = "ran"
    /\ listener' = (readyState = "loading")
    /\ init("init")
    /\ UNCHANGED <<readyState, strVars>>

\* The module's top level: if (document.readyState === 'loading') ... else init()
Install ==
    /\ script = "pending"
    /\ script' = "ran"
    /\ IF readyState = "loading"
       THEN /\ listener' = TRUE
            /\ UNCHANGED <<observers, children, editable, nodeValue, records,
                           transient, engine>>
       ELSE /\ init("init")
            /\ UNCHANGED listener
    /\ UNCHANGED <<readyState, strVars>>

\* The document leaves the loading state and DOMContentLoaded is dispatched:
\* onReady removes itself and calls init().
DOMContentLoaded ==
    /\ readyState = "loading"
    /\ readyState' = "interactive"
    /\ IF listener
       THEN /\ listener' = FALSE
            /\ init("onReady")
       ELSE UNCHANGED <<listener, observers, children, editable, nodeValue,
                        records, transient, engine>>
    /\ UNCHANGED <<script, strVars>>

\* A delivery whose writes replace the text node by a new one instead of
\* assigning its nodeValue: the written nodes leave the tree.
DeliverReplacingNodes ==
    /\ records # << >>
    /\ LET st == callback(Run("deliver", << >>), records, {})
       IN  /\ nodeValue' = st.nv
           /\ records' = st.q
           /\ engine' = History(st, engine.run + 1, records)
           /\ children' = [e \in Elements |->
                               SelectSeq(children[e], LAMBDA c : c \notin Range(st.written))]
    /\ transient' = {}
    /\ UNCHANGED <<readyState, script, listener, observers, editable, strVars>>

\* The delivery of the pending records: the queue is taken, the transient
\* observers are dropped, and the callback runs on the records taken.
Deliver ==
    /\ records # << >>
    /\ LET st == callback(Run("deliver", << >>), records, {})
       IN  /\ nodeValue' = st.nv
           /\ records' = st.q
           /\ engine' = History(st, engine.run + 1, records)
    /\ transient' = {}
    /\ UNCHANGED <<readyState, script, listener, observers, children, editable, strVars>>

-----------------------------------------------------------------------------
(* The page (the host): it inserts, removes, moves and edits nodes at any   *)
(* time, as long as fewer than MaxPending records are pending.             *)

MaxPending == 2

Capital(w) == toUpperCase(charAt0(w)) \o slice(w, 1)

\* "I love Balaklavas"
LoveText == << "I"," ","l","o","v","e"," " >> \o Capital(WORD_BASE) \o << "s" >>

\* "new balaklava text"
EditText == << "n","e","w"," " >> \o WORD_BASE \o << " ","t","e","x","t" >>

\* The payloads the page writes.
HostTexts == { EditText, << >> }

\* The parents the page gives each node it moves.
AllowedParents(n) ==
    CASE n = "body" -> {"html"}
      [] n = "div"  -> {"body", "pre"}
      [] n = "t1"   -> {"body", "div", "pre"}
      [] OTHER      -> {}

Room == Len(records) < MaxPending

\* parent.appendChild(n) for a detached n.
HostInsert(n, p) ==
    /\ p \in AllowedParents(n)
    /\ parentElement(n) = Null
    /\ p \notin InclusiveAncestors(children, n)
    /\ Room
    /\ children' = [children EXCEPT ![p] = Append(@, n)]
    /\ records' = Queue(records, children, transient, p, ChildList(p, << n >>, << >>))
    /\ engine' = Idle
    /\ UNCHANGED <<readyState, script, listener, observers, editable, nodeValue,
                   transient, strVars>>

\* parent.append(n1, n2) for two detached nodes: one record reports both.
HostInsertTwo(n1, n2, p) ==
    /\ n1 # n2
    /\ p \in AllowedParents(n1) \cap AllowedParents(n2)
    /\ parentElement(n1) = Null
    /\ parentElement(n2) = Null
    /\ p \notin InclusiveAncestors(children, n1) \cup InclusiveAncestors(children, n2)
    /\ Room
    /\ children' = [children EXCEPT ![p] = @ \o << n1, n2 >>]
    /\ records' = Queue(records, children, transient, p, ChildList(p, << n1, n2 >>, << >>))
    /\ engine' = Idle
    /\ UNCHANGED <<readyState, script, listener, observers, editable, nodeValue,
                   transient, strVars>>

\* n.remove(); the page never removes body.
HostRemove(n) ==
    /\ n # "body"
    /\ AllowedParents(n) # {}
    /\ parentElement(n) # Null
    /\ Room
    /\ LET p == parentElement(n) IN
       /\ children' = [children EXCEPT ![p] = SelectSeq(@, LAMBDA c : c # n)]
       /\ records' = Queue(records, children, transient, p, ChildList(p, << >>, << n >>))
       /\ transient' = IF Observed(children, transient, p)
                       THEN transient \cup {n} ELSE transient
    /\ engine' = Idle
    /\ UNCHANGED <<readyState, script, listener, observers, editable, nodeValue, strVars>>

\* p.appendChild(n) for an attached n: n is removed from its parent, which
\* is recorded, and then inserted into p, which is recorded as well.
HostMove(n, p) ==
    /\ p \in AllowedParents(n)
    /\ parentElement(n) \notin {Null, p}
    /\ p \notin InclusiveAncestors(children, n)
    /\ Room
    /\ LET old == parentElement(n)
           removed == [children EXCEPT ![old] = SelectSeq(@, LAMBDA c : c # n)]
           tr == IF Observed(children, transient, old)
                 THEN transient \cup {n} ELSE transient
           q == Queue(records, children, transient, old, ChildList(old, << >>, << n >>))
       IN  /\ children' = [removed EXCEPT ![p] = Append(@, n)]
           /\ records' = Queue(q, removed, tr, p, ChildList(p, << n >>, << >>))
           /\ transient' = tr
    /\ engine' = Idle
    /\ UNCHANGED <<readyState, script, listener, observers, editable, nodeValue, strVars>>

\* t.nodeValue = s
HostSetText(t, s) ==
    /\ Room
    /\ nodeValue' = [nodeValue EXCEPT ![t] = s]
    /\ records' = Queue(records, children, transient, t, CharacterData(t))
    /\ engine' = Idle
    /\ UNCHANGED <<readyState, script, listener, observers, children, editable,
                   transient, strVars>>

\* div.contentEditable = "true" / "inherit": attributes are not observed.
HostSetEditable(e) ==
    /\ editable' = IF e \in editable THEN editable \ {e} ELSE editable \cup {e}
    /\ engine' = Idle
    /\ UNCHANGED <<readyState, script, listener, observers, children, nodeValue,
                   records, transient, strVars>>

InitDom ==
    /\ readyState \in {"loading", "interactive"}
    /\ script = "pending"
    /\ listener = FALSE
    /\ observers = 0
    /\ children \in { [e \in Elements |->
                         CASE e = "html" -> top
                           [] e = "body" -> << "pre" >>
                           [] e = "pre"  -> << >>
                           [] e = "div"  -> << "t2" >>] : top \in { << >>, << "body" >> } }
    /\ editable = {}
    /\ nodeValue \in { [t \in Texts |-> IF t = "t1" THEN v ELSE LoveText] :
                          v \in { << >>, WORD_BASE } }
    /\ records = << >>
    /\ transient = {}
    /\ engine = Idle

Init ==
    /\ InitDom
    /\ original = << >>
    /\ once = << >>
    /\ twice = << >>
    /\ stage = "idle"

Host ==
    \/ \E n \in Nodes : \E p \in Elements : HostInsert(n, p)
    \/ \E n1 \in Nodes : \E n2 \in Nodes : \E p \in Elements : HostInsertTwo(n1, n2, p)
    \/ \E n \in Nodes : HostRemove(n)
    \/ \E n \in Nodes : \E p \in Elements : HostMove(n, p)
    \/ \E t \in Texts : \E s \in HostTexts : HostSetText(t, s)
    \/ HostSetEditable("div")

Next == Install \/ DOMContentLoaded \/ Deliver \/ Host

Spec == Init /\ [][Next]_vars

\* The page whose elements keep the contentEditable they start with: div is
\* editable from the start or never, and exemption changes only with the
\* tree.
InitFixedEditable ==
    /\ readyState \in {"loading", "interactive"}
    /\ script = "pending"
    /\ listener = FALSE
    /\ observers = 0
    /\ children \in { [e \in Elements |->
                         CASE e = "html" -> top
                           [] e = "body" -> << "pre" >>
                           [] e = "pre"  -> << >>
                           [] e = "div"  -> << "t2" >>] : top \in { << >>, << "body" >> } }
    /\ editable \in { {}, {"div"} }
    /\ nodeValue \in { [t \in Texts |-> IF t = "t1" THEN v ELSE LoveText] :
                          v \in { << >>, WORD_BASE } }
    /\ records = << >>
    /\ transient = {}
    /\ engine = Idle
    /\ original = << >>
    /\ once = << >>
    /\ twice = << >>
    /\ stage = "idle"

HostFixedEditable ==
    \/ \E n \in Nodes : \E p \in Elements : HostInsert(n, p)
    \/ \E n1 \in Nodes : \E n2 \in Nodes : \E p \in Elements : HostInsertTwo(n1, n2, p)
    \/ \E n \in Nodes : HostRemove(n)
    \/ \E n \in Nodes : \E p \in Elements : HostMove(n, p)
    \/ \E t \in Texts : \E s \in HostTexts : HostSetText(t, s)

NextFixedEditable == Install \/ DOMContentLoaded \/ Deliver \/ HostFixedEditable

SpecFixedEditable == InitFixedEditable /\ [][NextFixedEditable]_vars

-----------------------------------------------------------------------------
(* The strings the replacement is exercised on: every concatenation of at  *)
(* most MaxTokens tokens.                                                  *)

MaxTokens == 3

Tokens ==
    { WORD_BASE,
      toUpperCase(WORD_BASE),
      << "B" >> \o slice(WORD_BASE, 1),
      << "b","A","l","A","k","l","a","v","a" >>,
      << "s" >>, << "S" >>, << " " >>, << "x" >>, << "_" >> }

RECURSIVE Concats(_)
Concats(n) ==
    IF n = 0 THEN { << >> }
    ELSE LET shorter == Concats(n - 1)
         IN  shorter \cup { s \o t : s \in shorter, t \in Tokens }

Inputs == Concats(MaxTokens)

-----------------------------------------------------------------------------
(* The specification of the replacement alone.                             *)

InitStr ==
    /\ original \in Inputs
    /\ once = << >>
    /\ twice = << >>
    /\ stage = "input"
    /\ InitDom
    /\ readyState = "loading"
    /\ documentBody # Null
    /\ nodeValue["t1"] = << >>

\* The replace of replaceInTextNode on the string read.
Replace ==
    /\ stage = "input"
    /\ once' = replaced(original)
    /\ stage' = "once"
    /\ UNCHANGED <<original, twice, domVars>>

\* The same replace on its own result (the re-processing that the
\* characterData notification of the engine's write causes).
ReplaceAgain ==
    /\ stage = "once"
    /\ twice' = replaced(once)
    /\ stage' = "twice"
    /\ UNCHANGED <<original, once, domVars>>

NextStr == Replace \/ ReplaceAgain

SpecStr == InitStr /\ [][NextStr]_vars

-----------------------------------------------------------------------------
(* The claims about the replacement, stated without the regular            *)
(* expression: a whole-word occurrence is the base word in any letter      *)
(* case, with or without the plural suffix, between two non-word           *)
(* characters or string edges.                                             *)

UpperSet == Range(UpperLetters)

LowerSet == Range(LowerLetters)

\* The characters a..b of s that exist.
Span(s, a, b) ==
    LET hi == IF b <= Len(s) THEN b ELSE Len(s)
    IN  IF a < 1 \/ a > hi THEN << >> ELSE SubSeq(s, a, hi)

WholeWordAt(s, p, n) ==
    /\ n \in {Len(WORD_BASE), Len(WORD_BASE) + 1}
    /\ p >= 1
    /\ p + n - 1 <= Len(s)
    /\ toLowerCase(SubSeq(s, p, p + Len(WORD_BASE) - 1)) = WORD_BASE
    /\ (n = Len(WORD_BASE) + 1 => s[p + n - 1] \in {"s", "S"})
    /\ (p = 1 \/ ~ IsWordChar(s[p - 1]))
    /\ (p + n - 1 = Len(s) \/ ~ IsWordChar(s[p + n]))

WordLens == {Len(WORD_BASE), Len(WORD_BASE) + 1}

WordStarts(s) == { p \in 1..Len(s) : \E n \in WordLens : WholeWordAt(s, p, n) }

HasWholeWord(s) == WordStarts(s) # {}

InWord(s, ws, i) ==
    \E p \in ws : \E n \in WordLens :
        WholeWordAt(s, p, n) /\ p <= i /\ i < p + n

\* Every replacement is shorter than its match by this much.
Shrink == Len(WORD_BASE) - Len(REPLACEMENT_BASE)

\* Where position i of s lies in the result, when exactly the whole-word
\* occurrences before it were replaced.
OutPos(ws, i) == i - Shrink * Cardinality({ q \in ws : q < i })

\* The text that stands in the result r for the occurrence of length n at p,
\* ws being the starts of the whole-word occurrences.
Replacement(ws, r, p, n) == Span(r, OutPos(ws, p), OutPos(ws, p) + n - Shrink - 1)

AllUpper(m) == \A i \in DOMAIN m : m[i] \in UpperSet

AllLower(m) == \A i \in DOMAIN m : m[i] \in LowerSet

Capitalized(m) ==
    /\ Len(m) > 0
    /\ m[1] \in UpperSet
    /\ \A i \in 2..Len(m) : m[i] \in LowerSet

\* C2: the replacement is idempotent: running it on its own result changes
\* nothing, and its result holds no whole-word occurrence of the target.
C2_Idempotent ==
    /\ stage # "input" => ~ HasWholeWord(once)
    /\ stage = "twice" => twice = once

\* Two occurrences were replaced, and the second run returned the same text.
C2_Witness ==
    /\ stage = "twice"
    /\ Cardinality(WordStarts(original)) = 2
    /\ once # original
    /\ twice = once

\* C3: a string without a whole-word occurrence of the target (singular or
\* plural, any letter case) is returned unchanged; so is the empty string.
C3_NoMatchUnchanged ==
    (stage # "input" /\ ~ HasWholeWord(original)) => once = original

\* "balaklavass": the base word occurs, the suffix is followed by a word
\* character, and the string came back as it was.
C3_Witness ==
    /\ stage = "once"
    /\ original = WORD_BASE \o << "s", "s" >>
    /\ once = original

\* C4: each occurrence is cased from its own text, suffix included: all
\* upper case -> upper case; else all lower case -> lower case; else
\* Capitalized -> Capitalized; else the lower-case replacement.
C4_CasingLaw ==
    stage # "input" =>
        LET ws == WordStarts(original) IN
        \A p \in ws : \A n \in WordLens :
            WholeWordAt(original, p, n) =>
                LET m == SubSeq(original, p, p + n - 1)
                    r == Replacement(ws, once, p, n)
                IN  /\ Len(r) = n - Shrink
                    /\ toLowerCase(Span(r, 1, Len(REPLACEMENT_BASE))) = REPLACEMENT_BASE
                    /\ IF AllUpper(m) THEN AllUpper(r)
                       ELSE IF AllLower(m) THEN AllLower(r)
                       ELSE IF Capitalized(m) THEN Capitalized(r)
                       ELSE AllLower(r)

\* "Balaklava BALAKLAVA" became "Baklava BAKLAVA": two occurrences in one
\* string, each cased on its own.
C4_Witness ==
    /\ stage = "once"
    /\ original = (<< "B" >> \o slice(WORD_BASE, 1)) \o << " " >> \o toUpperCase(WORD_BASE)
    /\ once = (<< "B" >> \o slice(REPLACEMENT_BASE, 1)) \o << " " >>
                 \o toUpperCase(REPLACEMENT_BASE)

\* C5: the replacement of an occurrence ends with the plural suffix (in
\* either case) exactly when the occurrence carried it.
C5_PluralLaw ==
    stage # "input" =>
        LET ws == WordStarts(original) IN
        \A p \in ws : \A n \in WordLens :
            WholeWordAt(original, p, n) =>
                LET r == Replacement(ws, once, p, n)
                    plural == n = Len(WORD_BASE) + 1
                IN  /\ toLowerCase(r)
                          = REPLACEMENT_BASE \o (IF plural THEN << "s" >> ELSE << >>)
                    /\ (Len(r) > 0 /\ r[Len(r)] \in {"s", "S"}) <=> plural

\* "Balaklavas" became "Baklavas".
C5_Witness ==
    /\ stage = "once"
    /\ original = (<< "B" >> \o slice(WORD_BASE, 1)) \o << "s" >>
    /\ once = (<< "B" >> \o slice(REPLACEMENT_BASE, 1)) \o << "s" >>

\* C6: only the whole-word occurrences are replaced: the result is shorter
\* by one replacement per whole-word occurrence, and every character outside
\* those occurrences, the occurrences inside longer words included, stands
\* unchanged in the result.
C6_WordBoundaryLaw ==
    stage # "input" =>
        LET ws == WordStarts(original) IN
        /\ Len(once) = Len(original) - Shrink * Cardinality(ws)
        /\ \A i \in 1..Len(original) :
              ~ InWord(original, ws, i) =>
                  Span(once, OutPos(ws, i), OutPos(ws, i)) = << original[i] >>

\* "xbalaklava": the base word preceded by a word character came back as it was.
C6_Witness ==
    /\ stage = "once"
    /\ original = << "x" >> \o WORD_BASE
    /\ once = original

-----------------------------------------------------------------------------
(* The claims about the engine in the document.                            *)

\* The exempt categories of elements.
ExemptCategories == {"SCRIPT", "STYLE", "NOSCRIPT", "TEXTAREA", "INPUT", "CODE", "PRE"}

\* The parent chain of text unit t holds an element of an exempt category
\* or an editable element.
Exempt(t) ==
    \E a \in InclusiveAncestors(children, parentIn(children, t)) :
        tagName[a] \in ExemptCategories \/ a \in editable

\* The text units at or below node n.
RECURSIVE TextUnitsIn(_)
TextUnitsIn(n) ==
    IF n \in Texts THEN {n}
    ELSE UNION { TextUnitsIn(children[n][i]) : i \in DOMAIN children[n] }

Times(x, seq) == Cardinality({ i \in DOMAIN seq : seq[i] = x })

\* "new baklava text"
EditTextFixed == << "n","e","w"," " >> \o REPLACEMENT_BASE \o << " ","t","e","x","t" >>

\* "I love Baklavas"
LoveTextFixed ==
    << "I"," ","l","o","v","e"," ","B" >> \o slice(REPLACEMENT_BASE, 1) \o << "s" >>

\* A step of the engine changes engine to the history of an init() or of a
\* delivery; a step of the page sets engine.act to "host".
InitStep == engine'.act \in {"init", "onReady"}

DeliverStep == engine'.act = "deliver"

\* C1: no step of the engine (initial scan or delivery of a batch) changes
\* the payload of a text unit that is exempt at that moment, whatever its
\* payload and whatever the page did before.
C1_NeverWritesExempt ==
    [][ (InitStep \/ DeliverStep) =>
            \A t \in Texts :
                nodeValue'[t] # nodeValue[t] => (~ Exempt(t) /\ ~ Exempt(t)') ]_vars

\* A delivery called replaceInTextNode on an exempt text unit whose payload
\* holds a whole-word occurrence, and the payload is still there.
C1_Witness ==
    /\ engine.act = "deliver"
    /\ \E t \in Range(engine.processed) :
           /\ Exempt(t)
           /\ HasWholeWord(nodeValue[t])
           /\ parentIn(children, t) = "div"
           /\ parentIn(children, "div") = "pre"

\* C7: when a batch is delivered, every text unit that then lies in the
\* subtree of a node the batch reports as added, is not exempt and holds a
\* whole-word occurrence has its payload replaced by the replacement of that
\* payload: "I love Balaklavas" becomes "I love Baklavas". The delivery is
\* the only step needed: no re-scan is requested.
C7_InsertedTextReplaced ==
    [][ DeliverStep =>
            \A i \in DOMAIN records : \A j \in DOMAIN records[i].addedNodes :
                \A t \in TextUnitsIn(records[i].addedNodes[j]) :
                    (~ Exempt(t) /\ HasWholeWord(nodeValue[t])) =>
                        /\ nodeValue'[t] = replaced(nodeValue[t])
                        /\ ~ HasWholeWord(nodeValue'[t])
                        /\ nodeValue[t] = LoveText => nodeValue'[t] = LoveTextFixed ]_vars

\* The element div was inserted with the text "I love Balaklavas" below it,
\* and the delivery of that insertion wrote "I love Baklavas".
C7_Witness ==
    /\ engine.act = "deliver"
    /\ engine.examined = << "t2" >>
    /\ engine.processed = << "t2" >>
    /\ engine.written = << "t2" >>
    /\ parentIn(children, "t2") = "div"
    /\ parentIn(children, "div") = "body"
    /\ documentBody = "body"
    /\ nodeValue["t2"] = LoveTextFixed

\* Whether the batch q reports a text-content change of t.
Edited(q, t) ==
    \E i \in DOMAIN q : q[i].type = "characterData" /\ q[i].target = t

\* C8: the delivery of a batch that reports a text-content change of a text
\* unit which is not exempt and holds a whole-word occurrence writes that
\* unit exactly once, and writes the replacement of the edited payload ("new
\* balaklava text" becomes "new baklava text"); and the delivery that follows
\* with no step of the page in between (it delivers the notifications of the
\* engine's own writes) writes nothing.
C8_EditCorrectedOnce ==
    [][ DeliverStep =>
            /\ \A t \in Texts :
                   (Edited(records, t) /\ ~ Exempt(t) /\ HasWholeWord(nodeValue[t])) =>
                       /\ Times(t, engine'.written) = 1
                       /\ nodeValue'[t] = replaced(nodeValue[t])
                       /\ nodeValue[t] = EditText => nodeValue'[t] = EditTextFixed
            /\ engine.act = "deliver" =>
                   (engine'.written = << >> /\ nodeValue' = nodeValue) ]_vars

\* The page edited t1 to "new balaklava text"; one delivery wrote "new
\* baklava text", and the next delivery processed t1 again and wrote nothing.
C8_Witness ==
    /\ engine.act = "deliver"
    /\ engine.run = 2
    /\ engine.examined = << >>
    /\ engine.processed = << "t1" >>
    /\ engine.written = << >>
    /\ nodeValue["t1"] = EditTextFixed

\* C9: the notifications of the engine's own writes end the re-processing:
\* after the last step of the page at most two deliveries happen, and the
\* second writes nothing and leaves no notification pending.
C9_FeedbackTerminates ==
    /\ engine.run <= 2
    /\ engine.run = 2 => (engine.written = << >> /\ records = << >>)

\* A second delivery in a row processed two text units, found nothing to
\* write, and left the queue empty.
C9_Witness ==
    /\ engine.act = "deliver"
    /\ engine.run = 2
    /\ Len(engine.processed) >= 2
    /\ engine.written = << >>
    /\ records = << >>

\* The lifecycle in one state: uninitialized until init() has run, watching
\* from then on.
Watching == observers > 0

LifecycleInv ==
    /\ observers \in {0, 1}
    /\ Watching => (script = "ran" /\ readyState # "loading" /\ ~ listener)
    /\ script = "pending" => (~ Watching /\ ~ listener)
    /\ (script = "ran" /\ readyState = "loading") => (listener /\ ~ Watching)
    /\ (script = "ran" /\ readyState # "loading") => Watching

\* C10: the engine is uninitialized or watching. Installed while the
\* document is loading it waits, as a one-shot listener, for the readiness
\* notification; installed later it starts watching at once. The transition
\* (the initial scan and the registration, in one step) happens once, never
\* while the document is loading, and is never undone.
C10_Lifecycle ==
    /\ LifecycleInv
    /\ [][ /\ LifecycleInv'
           /\ observers' >= observers
           /\ InitStep <=> observers' = observers + 1
           /\ (InitStep /\ engine'.act = "onReady") => (listener /\ ~ listener')
           /\ (script = "pending" /\ script' = "ran") =>
                  IF readyState = "loading"
                  THEN listener' /\ ~ Watching'
                  ELSE Watching' /\ engine'.act = "init" ]_vars

\* The script was installed while the document was loading; the readiness
\* notification then ran the initial scan, which wrote t1, and registered
\* the observer.
C10_Witness ==
    /\ engine.act = "onReady"
    /\ Watching
    /\ ~ listener
    /\ readyState = "interactive"
    /\ engine.written = << "t1" >>

\* Whether the batch q reports body as added.
BodyAdded(q) == \E i \in DOMAIN q : "body" \in Range(q[i].addedNodes)

\* C11: an init() that finds no document.body scans nothing, changes nothing
\* and still registers the observer; the later insertion of body is reported
\* to the observer, and the delivery of that report replaces the payload of
\* every text unit of body that is not exempt and holds a whole-word
\* occurrence.
C11_AbsentBodyRecovered ==
    [][ /\ (InitStep /\ documentBody = Null) =>
               /\ engine'.examined = << >>
               /\ engine'.processed = << >>
               /\ nodeValue' = nodeValue
               /\ Watching'
        /\ (Watching /\ documentBody = Null /\ documentBody' # Null) =>
               BodyAdded(records')
        /\ (DeliverStep /\ BodyAdded(records)) =>
               \A t \in TextUnitsIn("body") :
                   (~ Exempt(t) /\ HasWholeWord(nodeValue[t])) =>
                       /\ nodeValue'[t] = replaced(nodeValue[t])
                       /\ ~ HasWholeWord(nodeValue'[t]) ]_vars

\* The observer was registered before body existed; the batch that reported
\* body as added was delivered, and the walk of body wrote t1.
C11_Witness ==
    /\ engine.act = "deliver"
    /\ BodyAdded(engine.batch)
    /\ "t1" \in Range(engine.examined)
    /\ "t1" \in Range(engine.written)
    /\ parentIn(children, "t1") = "body"
    /\ ~ HasWholeWord(nodeValue["t1"])

\* C12: a step of the engine writes a text unit only when the replacement
\* differs from the payload: a unit whose payload is empty or holds no
\* whole-word occurrence is not written and no text-content notification for
\* it is queued, and every notification the step queues comes from a write.
C12_WritesOnlyOnChange ==
    [][ (InitStep \/ DeliverStep) =>
            /\ \A t \in Texts :
                   (nodeValue[t] = << >> \/ ~ HasWholeWord(nodeValue[t])) =>
                       /\ t \notin Range(engine'.written)
                       /\ nodeValue'[t] = nodeValue[t]
                       /\ ~ Edited(records', t)
            /\ \A t \in Range(engine'.written) : nodeValue'[t] # nodeValue[t]
            /\ \A i \in DOMAIN records' :
                   /\ records'[i].type = "characterData"
                   /\ records'[i].target \in Range(engine'.written) ]_vars

\* A delivery called replaceInTextNode on t1, whose payload is empty, and on
\* t2, whose payload "I love Baklavas" holds no occurrence; neither is exempt,
\* nothing was written and nothing was queued.
C12_Witness ==
    /\ engine.act = "deliver"
    /\ engine.processed = << "t1", "t2" >>
    /\ nodeValue["t1"] = << >>
    /\ nodeValue["t2"] = LoveTextFixed
    /\ ~ Exempt("t1")
    /\ ~ Exempt("t2")
    /\ engine.written = << >>
    /\ records = << >>

\* C13: a step of the engine (an init() or a delivery) leaves the tree as
\* it was: the same nodes, every element's children in the same order, the
\* same editable elements; payloads of text units are all it changes.
C13_StructureUnchanged ==
    [][ (InitStep \/ DeliverStep) =>
            /\ children' = children
            /\ editable' = editable
            /\ DOMAIN nodeValue' = DOMAIN nodeValue ]_vars

\* A delivery wrote both text units, and both are where they were: t2 and
\* t1 below div, in that order, and div below body.
C13_Witness ==
    /\ engine.act = "deliver"
    /\ Len(engine.written) = 2
    /\ children["div"] = << "t2", "t1" >>
    /\ parentIn(children, "div") = "body"
    /\ documentBody = "body"

\* Whether text unit t lies, in the present tree, at or below a node that
\* the batch q reports as added.
InAdded(q, t) ==
    \E i \in DOMAIN q : \E j \in DOMAIN q[i].addedNodes :
        t \in TextUnitsIn(q[i].addedNodes[j])

\* Whether the batch q reports node n as removed.
Removed(q, n) == \E i \in DOMAIN q : n \in Range(q[i].removedNodes)

\* C14: the delivery of a batch touches only the text units the batch
\* reports as edited or that lie below a node it reports as added: every
\* other text unit, those reported only as removed included, is neither
\* examined nor processed, and keeps its payload.
C14_OnlyReportedUnits ==
    [][ DeliverStep =>
            \A t \in Texts :
                (~ Edited(records, t) /\ ~ InAdded(records, t)) =>
                    /\ nodeValue'[t] = nodeValue[t]
                    /\ t \notin Range(engine'.examined)
                    /\ t \notin Range(engine'.processed) ]_vars

\* A batch reported t1 as removed only and div as added: the delivery wrote
\* t2 below div and did not touch t1, which is detached and still holds a
\* whole-word occurrence.
C14_Witness ==
    /\ engine.act = "deliver"
    /\ Removed(engine.batch, "t1")
    /\ ~ Edited(engine.batch, "t1")
    /\ ~ InAdded(engine.batch, "t1")
    /\ parentIn(children, "t1") = Null
    /\ HasWholeWord(nodeValue["t1"])
    /\ "t1" \notin Range(engine.processed)
    /\ engine.written = << "t2" >>

\* An element of an exempt category or an editable element.
ExemptElement(e) == tagName[e] \in ExemptCategories \/ e \in editable

\* Text unit t lies below an exempt element that itself lies below root.
InExemptSubtreeOf(root, t) ==
    \E e \in InclusiveAncestors(children, parentIn(children, t)) :
        /\ ExemptElement(e)
        /\ e # root
        /\ root \in InclusiveAncestors(children, e)

\* The elements the last run of the engine walked: body for an init(), the
\* elements reported as added for a delivery.
WalkedRoots ==
    IF engine.act \in {"init", "onReady"}
    THEN {documentBody} \ {Null}
    ELSE { r \in Elements :
             \E i \in DOMAIN engine.batch : r \in Range(engine.batch[i].addedNodes) }

\* C15: the walk of a subtree does not enter the exempt subtrees below its
\* root: the filter is never asked about a text unit that lies below an
\* exempt element of the walked subtree.
C15_ExemptSubtreesPruned ==
    \A root \in WalkedRoots :
        \A t \in Range(engine.examined) : ~ InExemptSubtreeOf(root, t)

\* The sum f[1] + ... + f[n].
RECURSIVE Sum(_, _)
Sum(f, n) == IF n = 0 THEN 0 ELSE f[n] + Sum(f, n - 1)

\* The number of times batch q reaches text unit t: once for each
\* characterData record whose target it is, once for each time it is listed
\* as an added node, and, when t is not exempt, once for each added element
\* whose subtree holds it.
Reaches(q, t) ==
    Sum([i \in DOMAIN q |->
            (IF q[i].type = "characterData" /\ q[i].target = t THEN 1 ELSE 0)
            + Sum([j \in DOMAIN q[i].addedNodes |->
                      LET a == q[i].addedNodes[j] IN
                      IF a = t THEN 1
                      ELSE IF a \in Elements /\ t \in TextUnitsIn(a) /\ ~ Exempt(t)
                           THEN 1 ELSE 0],
                  Len(q[i].addedNodes))],
        Len(q))

NoRemoval(q) == \A i \in DOMAIN q : q[i].removedNodes = << >>

C17_DecidesFromLiveState ==
    [][ DeliverStep =>
            \A t \in Texts :
                /\ Exempt(t) => (nodeValue'[t] = nodeValue[t]
                                 /\ t \notin Range(engine'.written))
                /\ t \in Range(engine'.written) => nodeValue'[t] = replaced(nodeValue[t])
                /\ nodeValue'[t] \in {nodeValue[t], replaced(nodeValue[t])} ]_vars

\* t1 was reported as added to body and moved below pre before the delivery.
C17_Witness ==
    /\ engine.act = "deliver"
    /\ Len(engine.batch) = 3
    /\ engine.batch[1] = ChildList("body", << "t1" >>, << >>)
    /\ engine.batch[3] = ChildList("pre", << "t1" >>, << >>)
    /\ parentIn(children, "t1") = "pre"
    /\ HasWholeWord(nodeValue["t1"])
    /\ Times("t1", engine.processed) = 2
    /\ engine.written = << >>

\* Batch q lists text unit t itself as an added node.
AddedItself(q, t) == \E i \in DOMAIN q : t \in Range(q[i].addedNodes)

\* C18: a text unit without a parent element is not exempt: when a delivery
\* reaches it directly, as an added node or as the target of a characterData
\* record, and its payload holds a whole-word occurrence, the delivery
\* completes and writes the replacement of the payload to it.
C18_OrphanProcessed ==
    [][ DeliverStep =>
            \A t \in Texts :
                (/\ parentIn(children, t) = Null
                 /\ HasWholeWord(nodeValue[t])
                 /\ (AddedItself(records, t) \/ Edited(records, t))) =>
                    /\ ~ Exempt(t)
                    /\ t \in Range(engine'.written)
                    /\ nodeValue'[t] = replaced(nodeValue[t])
                    /\ ~ HasWholeWord(nodeValue'[t]) ]_vars

\* t1 was inserted into body and removed again before the delivery.
C18_Witness ==
    /\ engine.act = "deliver"
    /\ engine.batch = << ChildList("body", << "t1" >>, << >>),
                         ChildList("body", << >>, << "t1" >>) >>
    /\ parentIn(children, "t1") = Null
    /\ engine.processed = << "t1" >>
    /\ engine.written = << "t1" >>
    /\ nodeValue["t1"] = REPLACEMENT_BASE

\* C19: init() is one step that scans and then registers the observer: it
\* starts with no observer and no record, ends with the observer registered,
\* with every text unit below body that is not exempt free of whole-word
\* occurrences, and with no record queued by its own writes; and no record
\* exists while no observer is registered.
C19_ScanThenObserve ==
    [][ /\ ~ Watching' => records' = << >>
        /\ InitStep =>
               /\ ~ Watching /\ records = << >>
               /\ Watching' /\ records' = << >>
               /\ children' = children /\ editable' = editable
               /\ documentBody # Null =>
                      \A t \in TextUnitsIn("body") :
                          ~ Exempt(t) =>
                              /\ nodeValue'[t] = replaced(nodeValue[t])
                              /\ ~ HasWholeWord(nodeValue'[t]) ]_vars

C19_Witness ==
    /\ engine.act = "init"
    /\ engine.written = << "t2", "t1" >>
    /\ records = << >>
    /\ Watching
    /\ documentBody = "body"
    /\ ~ HasWholeWord(nodeValue["t1"])
    /\ ~ HasWholeWord(nodeValue["t2"])

\* C20: in a page that never changes contentEditable in place, whenever
\* the observer is registered and no record is pending, no text unit below
\* document.body that is not exempt holds a whole-word occurrence.
C20_QuiescentClean ==
    (Watching /\ records = << >> /\ documentBody # Null) =>
        \A t \in TextUnitsIn("body") : ~ Exempt(t) => ~ HasWholeWord(nodeValue[t])

\* The page wrote "new balaklava text" to t1 below body; one delivery
\* corrected it and the next one found nothing to do.
C20_Witness ==
    /\ Watching
    /\ records = << >>
    /\ engine.act = "deliver"
    /\ engine.run = 2
    /\ parentIn(children, "t1") \in {"body", "div"}
    /\ "t1" \in TextUnitsIn("body")
    /\ ~ Exempt("t1")
    /\ nodeValue["t1"] = EditTextFixed

====
